---- MODULE Spec2Model ----
(***************************************************************************)
(* Model of the PenpalsNow crawler (src/src/scraper.js, the axios/cheerio  *)
(* version at lines 220-570): fetchPage and fetchEmail with their retry    *)
(* loops, parsePage, scrapeCurrentPage, scrapeAllPages with its resume     *)
(* fast-forward, loadExistingAds / saveToExcel and main.                   *)
(* The bulk sender (sendToExcelEmails, src/unnamed/part_000 lines 1-140)   *)
(* is modelled on two store files: loadRows, the gathering of toSend, the  *)
(* sending loop and saveRows.                                              *)
(*                                                                         *)
(* Strings that the code inspects (response bodies, e-mail values) are     *)
(* sequences of one-character strings, so that trim() and EMAIL_REGEX are  *)
(* computed character by character.  A listing page is the sequence of its *)
(* entry markers (TRUE = the marker has an id) plus the presence of the    *)
(* "Next 5 pen pal ads" form.  A parsed ad is identified by the position   *)
(* of its page in the listing and of its marker in the page; these stand   *)
(* for the ad's labelled text fields.                                      *)
(***************************************************************************)
EXTENDS Integers, Sequences, FiniteSets, TLC

\* ------------------------------------------------------------------ bounds
MaxListing == 3      \* longest listing (pages chained by the next form)
SmallMaxPages == 2   \* the maxPages option tried besides main's
MaxOdd == 1          \* lookups per run that end without the plain address
MaxRows == 2         \* rows of the first store file the sender is run on
MaxRows2 == 1        \* rows of the second store file the sender is run on
MaxMarkers == 6      \* most entry markers of a page given to parsePage
LiveListing == 2     \* longest listing of the runs followed to their end

\* ------------------------------------------------------- program constants
ADS_PER_PAGE == 5
FETCH_EMAIL_RETRIES == 4
FETCH_PAGE_RETRIES == 4
MAIN_MAX_PAGES == 9999
PAGE_BACKOFF_BASE_MS == 2000
EMAIL_BACKOFF_BASE_MS == 1000
MAX_EMAILS_PER_RUN == 100

\* ----------------------------------------------------------------- values
Null == <<"null">>            \* JavaScript null
Undef == <<"undefined">>      \* JavaScript undefined / absent key
EmptyCell == <<>>             \* a sheet cell that is not written
NoErr == [code |-> "", causeCode |-> "", message |-> ""]
NoCatch == [fn |-> "none", attempt |-> 0, err |-> NoErr, delays |-> <<>>,
            warned |-> FALSE, gaveUp |-> FALSE]
LISTING_URL == [kind |-> "url", from |-> 0]

Q == "\""
ADDR == <<"a", "@", "b", ".", "c">>
JUNK == <<"n", "o">>
ObjCompact(v) == <<"{", Q, "e", "m", "a", "i", "l", Q, ":", Q>> \o v \o <<Q, "}">>
ObjSpaced(v) == <<"{", Q, "e", "m", "a", "i", "l", Q, ":", " ", Q>> \o v \o <<Q, "}">>
StrEscaped == <<Q, "a", "\\", "u", "0", "0", "4", "0", "b", ".", "c", Q>>

\* Response bodies of the showemail endpoint that are tried.
BareBodies == {ADDR}
OddBodies ==
  { <<" ">> \o ADDR \o <<"\n">>,    \* address with surrounding whitespace
    JUNK,                          \* plain text, not an address
    <<>>,                          \* empty body
    ObjCompact(ADDR),              \* {"email":"a@b.c"}
    ObjSpaced(ADDR),               \* {"email": "a@b.c"}
    ObjSpaced(JUNK),               \* {"email": "no"}
    ObjSpaced(<<>>),               \* {"email": ""}
    <<"{", "}">>,                  \* {}
    StrEscaped }                   \* "a@b.c"
Bodies == BareBodies \cup OddBodies

\* Errors an axios call is made to fail with.
Errors ==
  { [code |-> "", causeCode |-> "ECONNRESET", message |-> "aborted"],
    [code |-> "ERR_NETWORK", causeCode |-> "", message |-> "Network Error"],
    [code |-> "ENOTFOUND", causeCode |-> "", message |-> "getaddrinfo ENOTFOUND"] }

\* Cell values of the store files the sender is run on.
YES == <<"y", "e", "s">>
YESCAP == <<"Y", "e", "s">>
PADDED == <<" ">> \o ADDR \o <<" ">>

\* The e-mail and sent cells of the rows tried.
SenderRowKinds ==
  { [email |-> ADDR, sent |-> EmptyCell],
    [email |-> PADDED, sent |-> EmptyCell],
    [email |-> ADDR, sent |-> YES],
    [email |-> ADDR, sent |-> YESCAP],
    [email |-> JUNK, sent |-> EmptyCell],
    [email |-> EmptyCell, sent |-> EmptyCell] }

\* Values of the --max argument tried (NoArg: the argument is not given).
NoArg == <<>>
MaxArgs == {NoArg, <<"0">>, <<"1">>, <<"2">>, <<"x">>}

\* Entry markers of the page layouts tried.
PageKinds ==
  { <<TRUE, TRUE, TRUE, TRUE, TRUE>>,     \* a full page
    <<TRUE, FALSE, TRUE, TRUE>>,          \* three ads and a marker without id
    <<>> }                                \* no entry marker

\* --------------------------------------------------------- pure functions
RECURSIVE Pow(_, _)
Pow(b, n) == IF n <= 0 THEN 1 ELSE b * Pow(b, n - 1)

IsSpace(c) == c \in {" ", "\n", "\t"}

RECURSIVE trimStart(_)
trimStart(s) ==
  IF s # <<>> /\ IsSpace(Head(s)) THEN trimStart(Tail(s)) ELSE s

RECURSIVE trimEnd(_)
trimEnd(s) ==
  IF s # <<>> /\ IsSpace(s[Len(s)]) THEN trimEnd(SubSeq(s, 1, Len(s) - 1)) ELSE s

trim(s) == trimEnd(trimStart(s))

\* /^[^\s@]+@[^\s@]+\.[^\s@]+$/
EMAIL_REGEX(s) ==
  /\ \A i \in 1..Len(s) : ~IsSpace(s[i])
  /\ Cardinality({i \in 1..Len(s) : s[i] = "@"}) = 1
  /\ \E at \in 2..Len(s) :
       /\ s[at] = "@"
       /\ \E dot \in (at + 2)..(Len(s) - 1) : s[dot] = "."

\* JSON.parse over the bodies tried: the texts that are JSON, with the value
\* each parses to; any other text raises SyntaxError.
JsonTable ==
  { [text |-> ObjCompact(ADDR), type |-> "object", email |-> ADDR, str |-> <<>>],
    [text |-> ObjSpaced(ADDR), type |-> "object", email |-> ADDR, str |-> <<>>],
    [text |-> ObjSpaced(JUNK), type |-> "object", email |-> JUNK, str |-> <<>>],
    [text |-> ObjSpaced(<<>>), type |-> "object", email |-> <<>>, str |-> <<>>],
    [text |-> <<"{", "}">>, type |-> "object", email |-> Undef, str |-> <<>>],
    [text |-> StrEscaped, type |-> "string", email |-> Undef, str |-> ADDR] }

IsJson(t) == \E j \in JsonTable : j.text = t
JSONparse(t) == CHOOSE j \in JsonTable : j.text = t

Truthy(v) == v # Undef /\ v # Null /\ v # <<>>

\* fetchEmail, lines 281-288: the value returned for a response body.
emailFromBody(data) ==
  LET trimmed == trim(data)
  IN IF EMAIL_REGEX(trimmed) THEN trimmed
     ELSE IF ~IsJson(trimmed) THEN Null
     ELSE LET json == JSONparse(trimmed)
          IN IF Truthy(json.email) THEN json.email
             ELSE IF json.type = "string" /\ EMAIL_REGEX(json.str) THEN json.str
             ELSE Null

\* isRetryableNetworkError, and the same test inlined in fetchEmail.
MessageMatches(m) == m \in {"socket hang up", "Network Error"}

\* Variant: every failure is taken for a transient one.
isRetryableAlways(err) == TRUE

isRetryableNetworkError(err) ==
  LET code == IF err.code # "" THEN err.code ELSE err.causeCode
  IN \/ code = "ECONNRESET"
     \/ code = "ETIMEDOUT"
     \/ code = "ECONNABORTED"
     \/ (err.message # "" /\ MessageMatches(err.message))

\* Variant: the ceiling is tested one attempt late.
fetchPageGivesUpLate(err, attempt) ==
  ~isRetryableNetworkError(err) \/ attempt = FETCH_PAGE_RETRIES + 1

\* fetchPage, line 420, and fetchEmail, line 297: no further attempt.
fetchPageGivesUp(err, attempt) ==
  ~isRetryableNetworkError(err) \/ attempt = FETCH_PAGE_RETRIES

\* Variant: every error is retried until the last attempt.
fetchEmailRetriesAll(err, attempt) == attempt = FETCH_EMAIL_RETRIES

fetchEmailGivesUp(err, attempt) ==
  ~isRetryableNetworkError(err) \/ attempt = FETCH_EMAIL_RETRIES

pageBackoffMs(attempt) == PAGE_BACKOFF_BASE_MS * Pow(2, attempt - 1)

\* Variant: the error of the attempt before is thrown.
thrownErrorPrevious(err, lastErr) == lastErr

\* fetchPage, line 420: `throw err`, where err is the error just caught and
\* lastErr the one recorded before it.
thrownError(err, lastErr) == err

\* Variant: the page's records take the place of the result set.
pushAllReplaces(all, ads) == ads

\* scrapeAllPages, lines 481 and 500: allAds.push(...ads).
pushAll(all, ads) == all \o ads

\* Variant: every retry is announced.
retryWarnedAlways(attempt) == TRUE

\* fetchEmail, line 299: a retry is announced from the second attempt on.
retryWarned(attempt) == attempt > 1

\* Variant: the same delay before every retry.
emailBackoffFlat(attempt) == EMAIL_BACKOFF_BASE_MS

emailBackoffMs(attempt) == EMAIL_BACKOFF_BASE_MS * Pow(2, attempt - 1)

\* Variant: markers are taken however many came before.
RECURSIVE parseMarkersNoCap(_, _, _)
parseMarkersNoCap(markers, p, i) ==
  IF i > Len(markers) THEN <<>>
  ELSE IF ~markers[i] THEN parseMarkersNoCap(markers, p, i + 1)
  ELSE <<[page |-> p, slot |-> i]>> \o parseMarkersNoCap(markers, p, i + 1)

\* parsePage: the first ADS_PER_PAGE markers, those with an id, in order.
RECURSIVE parseMarkers(_, _, _)
parseMarkers(markers, p, i) ==
  IF i > Len(markers) THEN <<>>
  ELSE IF i > ADS_PER_PAGE THEN parseMarkers(markers, p, i + 1)
  ELSE IF ~markers[i] THEN parseMarkers(markers, p, i + 1)
  ELSE <<[page |-> p, slot |-> i]>> \o parseMarkers(markers, p, i + 1)

\* XLSX.utils.json_to_sheet / sheet_to_json on the rows: a null or undefined
\* value writes no cell, and a cell that is not written gives no key.
ToCell(v) == IF v = Null \/ v = Undef THEN EmptyCell ELSE v
FromCell(c) == IF c = EmptyCell THEN Undef ELSE c

\* Variant: the sheet is written with the crawl's own columns only.
json_to_sheetOwnColumns(ads) ==
  [i \in 1..Len(ads) |->
     [page |-> ads[i].page, slot |-> ads[i].slot,
      email |-> ToCell(ads[i].email), sent |-> EmptyCell]]

json_to_sheet(ads) ==
  [i \in 1..Len(ads) |->
     [page |-> ads[i].page, slot |-> ads[i].slot,
      email |-> ToCell(ads[i].email), sent |-> ToCell(ads[i].sent)]]

sheet_to_json(rows) ==
  [i \in 1..Len(rows) |->
     [page |-> rows[i].page, slot |-> rows[i].slot,
      email |-> FromCell(rows[i].email), sent |-> FromCell(rows[i].sent)]]

\* Variant: rows without a revealed e-mail are not carried forward.
RECURSIVE dropUnrevealed(_)
dropUnrevealed(ads) ==
  IF ads = <<>> THEN <<>>
  ELSE IF Head(ads).email = Undef THEN dropUnrevealed(Tail(ads))
  ELSE <<Head(ads)>> \o dropUnrevealed(Tail(ads))

loadExistingAdsRevealedOnly(file, sheet) ==
  IF file = "present" THEN dropUnrevealed(sheet_to_json(sheet)) ELSE <<>>

\* Variant: whatever rows the file holds are taken, readable or not.
loadExistingAdsUnguarded(file, sheet) == sheet_to_json(sheet)

\* loadExistingAds, lines 524-535: no file (existsSync fails), a file that
\* XLSX.readFile throws on, and a workbook without a first sheet give [];
\* otherwise the rows of the first sheet.
loadExistingAds(file, sheet) ==
  IF file = "absent" THEN <<>>
  ELSE IF file = "unreadable" THEN <<>>
  ELSE IF file = "nosheet" THEN <<>>
  ELSE sheet_to_json(sheet)

\* Variant: the last record is not written.
saveToExcelDropsLast(ads) ==
  json_to_sheet(IF ads = <<>> THEN ads ELSE SubSeq(ads, 1, Len(ads) - 1))

\* saveToExcel, lines 537-543.
saveToExcel(ads) == json_to_sheet(ads)

\* Variant: the page after the persisted ones is not skipped to.
startPageNumberOffByOne(n) == IF n > 0 THEN n \div ADS_PER_PAGE ELSE 1

\* scrapeAllPages, line 454.
startPageNumber(n) == IF n > 0 THEN (n \div ADS_PER_PAGE) + 1 ELSE 1

\* ----------------------------------------------- pure functions (sender)
Digits == <<"0", "1", "2", "3", "4", "5", "6", "7", "8", "9">>
IsDigit(c) == \E d \in 1..10 : Digits[d] = c
DigitValue(c) == (CHOOSE d \in 1..10 : Digits[d] = c) - 1

\* parseInt(text, 10) on a text without sign or leading space: the value of
\* its leading digits; no leading digit gives NaN.
RECURSIVE parseDigits(_, _)
parseDigits(t, acc) ==
  IF t = <<>> \/ ~IsDigit(Head(t)) THEN acc
  ELSE parseDigits(Tail(t), 10 * acc + DigitValue(Head(t)))

parseInt(t) ==
  IF t = <<>> \/ ~IsDigit(Head(t)) THEN [nan |-> TRUE, n |-> 0]
  ELSE [nan |-> FALSE, n |-> parseDigits(t, 0)]

\* sender main, line 75.
maxEmailsOf(arg) ==
  LET text == IF arg = NoArg THEN <<"1", "0", "0">> ELSE arg
      parsed == parseInt(text)
  IN IF parsed.nan \/ parsed.n = 0 THEN MAX_EMAILS_PER_RUN ELSE parsed.n

\* isValidEmail, lines 64-66.
isValidEmail(val) == Truthy(val) /\ EMAIL_REGEX(trim(val))

\* Variant: the sent column is not looked at.
alreadySentNever(row) == FALSE

\* sender main, line 98 (the rows tried have no "Sent" column).
alreadySent(row) == row.sent = YES \/ row.sent = YESCAP

\* Variant: the loop over the rows has no test against maxEmails.
RECURSIVE gatherRowsNoCap(_, _, _, _, _, _)
gatherRowsNoCap(toSend, rows, f, i, sentCount, maxEmails) ==
  IF i > Len(rows) THEN toSend
  ELSE IF ~isValidEmail(rows[i].email)
    THEN gatherRowsNoCap(toSend, rows, f, i + 1, sentCount, maxEmails)
  ELSE IF alreadySent(rows[i])
    THEN gatherRowsNoCap(toSend, rows, f, i + 1, sentCount, maxEmails)
  ELSE gatherRowsNoCap(Append(toSend, [file |-> f, rowIndex |-> i]), rows, f,
                       i + 1, sentCount, maxEmails)

\* sender main, lines 93-100: the inner loop over the rows of one file, from
\* row i on.
RECURSIVE gatherRows(_, _, _, _, _, _)
gatherRows(toSend, rows, f, i, sentCount, maxEmails) ==
  IF i > Len(rows) THEN toSend
  ELSE IF sentCount + Len(toSend) >= maxEmails THEN toSend
  ELSE IF ~isValidEmail(rows[i].email)
    THEN gatherRows(toSend, rows, f, i + 1, sentCount, maxEmails)
  ELSE IF alreadySent(rows[i])
    THEN gatherRows(toSend, rows, f, i + 1, sentCount, maxEmails)
  ELSE gatherRows(Append(toSend, [file |-> f, rowIndex |-> i]), rows, f, i + 1,
                  sentCount, maxEmails)

\* loadRows, lines 50-56, on a file that can be read.
loadRows(file, sheet) == IF file = "nosheet" THEN <<>> ELSE sheet_to_json(sheet)

\* saveRows, lines 58-62.
saveRows(rows) == json_to_sheet(rows)

\* ------------------------------------------------------------------ state
VARIABLES
  listing,       \* the remote listing: pages chained by their next form
  maxPages,      \* the maxPages option of scrapeAllPages
  store,         \* rows of the first sheet of the output file
  fileState,     \* the output file: "present", "absent", "unreadable", "nosheet"
  pc,            \* where main / scrapeAllPages stands
  existingAds,   \* main: rows loaded at start
  allAds,        \* scrapeAllPages: accumulated result set
  pageNum,       \* scrapeAllPages: page counter
  nextRequest,   \* scrapeAllPages: request of the next page
  html,          \* listing position of the page content held (0: none)
  ffI,           \* fast-forward loop counter i
  inResume,      \* the page being scraped is scraped by the resume branch
  fpCaller,      \* call site of the fetchPage call in progress
  fpReq,         \* fetchPage: urlOrConfig
  fpAttempt,     \* fetchPage: attempt
  fpErr,         \* fetchPage: lastErr
  fpDelays,      \* fetchPage: backoff delays taken in this call
  adsWithIds,    \* scrapeCurrentPage: parsed ads
  results,       \* scrapeCurrentPage: results
  feAttempt,     \* fetchEmail: attempt
  feErr,         \* fetchEmail: lastErr
  feDelays,      \* fetchEmail: backoff delays taken in this call
  lastBody,      \* body of the last reveal response of this page (none: Undef)
  fetchLog,      \* listing requests answered in this run, with the page got
  revealCount,   \* fetchEmail calls completed in this run
  reported,      \* "Page N: ..." lines logged in this run
  stopCause,     \* why pagination stopped in this run
  emptySeen,     \* a page was parsed with zero records in this run
  loadedSheet,   \* content of the store when this run loaded it
  caught,        \* the catch block run in the crawl's last step (NoCatch: none)
  store2,        \* rows of the first sheet of a second output file
  maxArg,        \* sender: value of the --max argument
  spc,           \* where the sender's main stands
  maxEmails,     \* sender: maxEmails
  excelFiles,    \* sender: excelFiles (1: the output file, 2: the second one)
  sFile,         \* sender: position in excelFiles of the loop of line 90
  rowsMem,       \* sender: the rows arrays loaded, per file
  sLoaded,       \* the rows of each file as the sender loaded them
  toSend,        \* sender: toSend
  sentCount,     \* sender: sentCount
  sI,            \* sender: i of the loop of line 110
  sendLog        \* sendEmailGmail calls of this sender run, with their outcome

envVars == <<listing, maxPages>>
mainVars == <<pc, existingAds, allAds, pageNum, nextRequest, html, ffI, inResume>>
fpVars == <<fpCaller, fpReq, fpAttempt, fpErr, fpDelays>>
scrapeVars == <<adsWithIds, results, lastBody>>
feVars == <<feAttempt, feErr, feDelays>>
histVars == <<fetchLog, revealCount, reported, stopCause, emptySeen, loadedSheet>>
senderVars == <<store2, maxArg, spc, maxEmails, excelFiles, sFile, rowsMem,
                sLoaded, toSend, sentCount, sI, sendLog>>
scraperVars == <<envVars, mainVars, fpVars, scrapeVars, feVars, histVars, caught>>
vars == <<envVars, senderVars, fileState, store, mainVars, fpVars, scrapeVars, feVars,
          histVars, caught>>

NoForm == [kind |-> "none", from |-> 0]

\* Variant: the form that was taken from the first page is kept and given
\* again for every page that has a next form.
getNextFormDataCached(p) ==
  IF listing[p].next THEN [kind |-> "form", from |-> 1] ELSE NoForm

\* getNextFormData on the page held at listing position p.
getNextFormData(p) ==
  IF listing[p].next THEN [kind |-> "form", from |-> p] ELSE NoForm

\* parsePage on the page held at listing position p.
parsePage(p) == parseMarkers(listing[p].markers, p, 1)

\* The site: the listing URL gives the first page, a next form gives the page
\* after the one it was taken from; the form of the last page of the modelled
\* listing, when it has one, gives that page again.
Serve(req) ==
  IF req.kind = "url" THEN 1
  ELSE IF req.from < Len(listing) THEN req.from + 1 ELSE req.from

Listings ==
  UNION { [1..n -> [markers : PageKinds, next : BOOLEAN]] : n \in 1..MaxListing }

\* A listing: every page but the last has the next form.
IsChain(l) == \A i \in 1..Len(l) : l[i].next = (i < Len(l))

\* The ads of pages 1..j of listing l, as a run returns them that revealed
\* the plain address for every ad but the first, whose e-mail is `first`.
RECURSIVE PagesAds(_, _, _)
PagesAds(l, j, first) ==
  IF j = 0 THEN <<>>
  ELSE LET before == PagesAds(l, j - 1, first)
           parsed == parseMarkers(l[j].markers, j, 1)
       IN before \o
          [i \in 1..Len(parsed) |->
             [page |-> j, slot |-> parsed[i].slot,
              email |-> IF before = <<>> /\ i = 1 THEN first ELSE ADDR,
              sent |-> Undef]]

\* The output files an earlier run over the listing leaves behind: the ads
\* of the first j pages (j = 0: no file yet).  A run stops at the first page
\* without ads, so the pages it saved ads of all have some.
PriorStores(l) ==
  { saveToExcel(PagesAds(l, j, Null)) :
      j \in {n \in 0..Len(l) : \A i \in 1..n : parseMarkers(l[i].markers, i, 1) # <<>>} }

\* The state of a process that has just been started.
FreshRun ==
  /\ pc = "start"
  /\ existingAds = <<>> /\ allAds = <<>>
  /\ pageNum = 1 /\ nextRequest = LISTING_URL
  /\ html = 0 /\ ffI = 0 /\ inResume = FALSE
  /\ fpCaller = "none" /\ fpReq = LISTING_URL
  /\ fpAttempt = 0 /\ fpErr = NoErr /\ fpDelays = <<>>
  /\ adsWithIds = <<>> /\ results = <<>> /\ lastBody = Undef
  /\ feAttempt = 0 /\ feErr = NoErr /\ feDelays = <<>>
  /\ fetchLog = <<>> /\ revealCount = 0 /\ reported = 0
  /\ stopCause = "none" /\ emptySeen = FALSE
  /\ caught = NoCatch

\* The sender's main has not been started.
SenderIdle(at) ==
  /\ spc = at
  /\ maxEmails = 0 /\ excelFiles = <<>> /\ sFile = 0
  /\ rowsMem = <<<<>>, <<>>>> /\ sLoaded = <<<<>>, <<>>>>
  /\ toSend = <<>> /\ sentCount = 0 /\ sI = 0 /\ sendLog = <<>>

\* A crawl is started; the output file is there with the rows of an earlier
\* run, or is not there, or has no sheet, or held the rows of the first page
\* and cannot be read any more.
Init ==
  /\ listing \in {l \in Listings : IsChain(l)}
  /\ maxPages \in {SmallMaxPages, MAIN_MAX_PAGES}
  /\ \/ fileState = "present" /\ store \in PriorStores(listing)
     \/ fileState \in {"absent", "nosheet"} /\ store = <<>>
     \/ fileState = "unreadable" /\ store = saveToExcel(PagesAds(listing, 1, Null))
  /\ loadedSheet = <<>>
  /\ FreshRun
  /\ store2 = <<>> /\ maxArg = NoArg
  /\ SenderIdle("idle")

\* ---------------------------------------------------------------- actions
\* The entry of a fetchPage call (lines 386-403): attempt 1 is issued.
CallFetchPage(caller, req) ==
  /\ pc' = "fetch"
  /\ fpCaller' = caller
  /\ fpReq' = req
  /\ fpAttempt' = 1
  /\ fpErr' = NoErr
  /\ fpDelays' = <<>>

\* The entry of a fetchEmail call (lines 269-278).
CallFetchEmail ==
  /\ feAttempt' = 1
  /\ feErr' = NoErr
  /\ feDelays' = <<>>

\* Variant: the fetchPage call is not awaited; it is still in progress when
\* its caller goes on.
NoFetchPageNotAwaited ==
  /\ fpCaller' = fpCaller
  /\ fpReq' = fpReq
  /\ fpAttempt' = fpAttempt
  /\ fpErr' = fpErr
  /\ fpDelays' = fpDelays

\* No fetchPage / fetchEmail call is in progress: their locals are gone.
NoFetchPage ==
  /\ fpCaller' = "none"
  /\ fpReq' = LISTING_URL
  /\ fpAttempt' = 0
  /\ fpErr' = NoErr
  /\ fpDelays' = <<>>

NoFetchEmail ==
  /\ feAttempt' = 0
  /\ feErr' = NoErr
  /\ feDelays' = <<>>

\* Lookups of this run that ended with anything but the plain address.
NonAddr(ads) == Cardinality({i \in 1..Len(ads) : ads[i].email # ADDR})
OddUsed ==
  NonAddr(SubSeq(allAds, Len(existingAds) + 1, Len(allAds))) + NonAddr(results)

\* The lookups that may meet a failed attempt or an answer that gives no
\* plain address: the first lookup of a page, MaxOdd times in a run.
MayBeOdd == OddUsed < MaxOdd /\ Len(results) = 0

\* main, lines 545-561, and scrapeAllPages up to its first fetch, lines 450-461.
MainStart ==
  /\ pc = "start"
  /\ caught' = NoCatch
  /\ loadedSheet' = store
  /\ existingAds' = loadExistingAds(fileState, store)
  /\ allAds' = existingAds'
  /\ pageNum' = startPageNumber(Len(existingAds'))
  /\ nextRequest' = LISTING_URL
  /\ IF Len(existingAds') > 0
       THEN CallFetchPage("first", LISTING_URL)
       ELSE /\ pc' = "loop"
            /\ UNCHANGED fpVars
  /\ UNCHANGED <<envVars, senderVars, fileState, store, html, ffI, inResume, scrapeVars, feVars,
                 fetchLog, revealCount, reported, stopCause, emptySeen>>

\* scrapeAllPages, line 491 and the fetchPage call of line 494.
LoopHead ==
  /\ pc = "loop"
  /\ caught' = NoCatch
  /\ IF pageNum <= maxPages
       THEN CallFetchPage("loop", nextRequest)
       ELSE /\ pc' = "save"
            /\ UNCHANGED fpVars
  /\ UNCHANGED <<envVars, senderVars, fileState, store, existingAds, allAds, pageNum, nextRequest, html,
                 ffI, inResume, scrapeVars, feVars, histVars>>

\* Where scrapeAllPages continues after fetchPage returned: lines 462-468,
\* 473-480 and 495-500.
AfterFetch(caller) ==
  IF caller = "first" THEN /\ ffI' = 0
                           /\ pc' = "ff"
  ELSE IF caller = "ff" THEN /\ ffI' = ffI + 1
                             /\ pc' = "ff"
  ELSE /\ ffI' = ffI
       /\ pc' = "scrape"

\* fetchPage, lines 404-417: an attempt is answered.
FetchPageOk ==
  /\ pc = "fetch"
  /\ caught' = NoCatch
  /\ html' = Serve(fpReq)
  /\ fetchLog' = Append(fetchLog, [req |-> fpReq, got |-> Serve(fpReq)])
  /\ AfterFetch(fpCaller)
  /\ inResume' = (fpCaller # "loop")
  /\ NoFetchPage
  /\ UNCHANGED <<envVars, senderVars, fileState, store, existingAds, allAds, pageNum, nextRequest,
                 scrapeVars, feVars,
                 revealCount, reported, stopCause, emptySeen, loadedSheet>>

\* fetchPage, lines 418-424: an attempt fails and is retried after a backoff.
FetchPageRetry ==
  /\ pc = "fetch"
  /\ \E err \in Errors :
       /\ ~fetchPageGivesUp(err, fpAttempt)
       /\ fpErr' = err
       /\ fpDelays' = Append(fpDelays, pageBackoffMs(fpAttempt))
       /\ fpAttempt' = fpAttempt + 1
       /\ caught' = [fn |-> "fetchPage", attempt |-> fpAttempt, err |-> err,
                     delays |-> fpDelays', warned |-> TRUE, gaveUp |-> FALSE]
  /\ UNCHANGED <<envVars, senderVars, fileState, store, mainVars, fpCaller, fpReq, scrapeVars, feVars,
                 fetchLog, revealCount, reported, stopCause, emptySeen, loadedSheet>>

\* The catch blocks of scrapeAllPages, lines 463-466, 474-478 and 496-499:
\* the reason recorded for the end of pagination, and where control goes
\* (each returns or breaks, so main's save is next).
pageFetchFailed(caller) ==
  IF caller = "first" THEN "firstfail"
  ELSE IF caller = "ff" THEN "fffail"
  ELSE "pagefail"

\* Variant: the page loop's fetch is not guarded (as at lines 170-172), so
\* the error reaches main().catch, which exits without saving.
catchPageFetchUnguarded(caller) == IF caller = "loop" THEN "crashed" ELSE "save"

\* Variant: the page loop goes on to its next turn (`continue`) when the
\* fetch has failed.
catchPageFetchContinues(caller) == IF caller = "loop" THEN "loop" ELSE "save"

catchPageFetch(caller) == "save"

\* fetchPage, lines 419-420: the error is thrown; the caller's catch block runs.
FetchPageThrow ==
  /\ pc = "fetch"
  /\ \E err \in Errors :
       /\ fetchPageGivesUp(err, fpAttempt)
       /\ fpErr' = err
       /\ caught' = [fn |-> "scrapeAllPages", attempt |-> fpAttempt,
                     err |-> thrownError(err, fpErr), delays |-> fpDelays,
                     warned |-> TRUE, gaveUp |-> TRUE]
  /\ stopCause' = pageFetchFailed(fpCaller)
  /\ store' = IF fpCaller = "ff" THEN saveToExcel(allAds) ELSE store
  /\ fileState' = IF fpCaller = "ff" THEN "present" ELSE fileState
  /\ pc' = catchPageFetch(fpCaller)
  /\ UNCHANGED <<envVars, senderVars, existingAds, allAds, pageNum, nextRequest, html, ffI,
                 inResume, fpCaller, fpReq, fpAttempt, fpDelays, scrapeVars, feVars,
                 fetchLog, revealCount, reported, emptySeen, loadedSheet>>

\* scrapeAllPages, lines 468-472: one turn of the fast-forward loop.
FastForward ==
  /\ pc = "ff"
  /\ caught' = NoCatch
  /\ IF ffI < pageNum - 1 /\ getNextFormData(html) # NoForm
       THEN CallFetchPage("ff", getNextFormData(html))
       ELSE /\ pc' = "scrape"
            /\ UNCHANGED fpVars
  /\ UNCHANGED <<envVars, senderVars, fileState, store, existingAds, allAds, pageNum, nextRequest, html,
                 ffI, inResume, scrapeVars, feVars, histVars>>

\* scrapeCurrentPage, lines 432-439: the page is parsed, the first lookup issued.
ScrapeCurrentPage ==
  /\ pc = "scrape"
  /\ caught' = NoCatch
  /\ adsWithIds' = parsePage(html)
  /\ results' = <<>>
  /\ lastBody' = Undef
  /\ emptySeen' = (emptySeen \/ adsWithIds' = <<>>)
  /\ IF adsWithIds' = <<>>
       THEN /\ pc' = "scraped"
            /\ UNCHANGED feVars
       ELSE /\ pc' = "reveal"
            /\ CallFetchEmail
  /\ UNCHANGED <<envVars, senderVars, fileState, store, existingAds, allAds, pageNum, nextRequest, html,
                 ffI, inResume, fpVars,
                 fetchLog, revealCount, reported, stopCause, loadedSheet>>

\* Variant: a lookup that gives no value ends the loop over the page's ads.
PushResultStopsOnNull(email) ==
  /\ results' = Append(results,
        [page |-> adsWithIds[Len(results) + 1].page,
         slot |-> adsWithIds[Len(results) + 1].slot,
         email |-> IF Truthy(email) THEN email ELSE Null,
         sent |-> Undef])
  /\ revealCount' = revealCount + 1
  /\ IF Len(results) + 1 = Len(adsWithIds) \/ ~Truthy(email)
       THEN /\ pc' = "scraped"
            /\ NoFetchEmail
       ELSE /\ pc' = "reveal"
            /\ CallFetchEmail

\* scrapeCurrentPage, lines 443-446: the record is pushed and the loop goes on.
PushResult(email) ==
  /\ results' = Append(results,
        [page |-> adsWithIds[Len(results) + 1].page,
         slot |-> adsWithIds[Len(results) + 1].slot,
         email |-> IF Truthy(email) THEN email ELSE Null,
         sent |-> Undef])
  /\ revealCount' = revealCount + 1
  /\ IF Len(results) + 1 = Len(adsWithIds)
       THEN /\ pc' = "scraped"
            /\ NoFetchEmail
       ELSE /\ pc' = "reveal"
            /\ CallFetchEmail

\* fetchEmail, lines 280-288: an attempt is answered (`odd`: this lookup may
\* be given an answer that is not the plain address).
FetchEmailOkIf(odd) ==
  /\ pc = "reveal"
  /\ caught' = NoCatch
  /\ \E body \in Bodies :
       /\ emailFromBody(body) # ADDR => odd
       /\ lastBody' = body
       /\ PushResult(emailFromBody(body))
  /\ UNCHANGED <<envVars, senderVars, fileState, store, existingAds, allAds, pageNum, nextRequest, html,
                 ffI, inResume, fpVars, adsWithIds,
                 fetchLog, reported, stopCause, emptySeen, loadedSheet>>

FetchEmailOk == FetchEmailOkIf(MayBeOdd)

\* fetchEmail, lines 289-300: an attempt fails and is retried after a backoff
\* (`odd`: this lookup may be made to fail).
FetchEmailRetryIf(odd) ==
  /\ pc = "reveal"
  /\ odd
  /\ \E err \in Errors :
       /\ ~fetchEmailGivesUp(err, feAttempt)
       /\ feErr' = err
       /\ feDelays' = Append(feDelays, emailBackoffMs(feAttempt))
       /\ feAttempt' = feAttempt + 1
       /\ caught' = [fn |-> "fetchEmail", attempt |-> feAttempt, err |-> err,
                     delays |-> feDelays', warned |-> retryWarned(feAttempt),
                     gaveUp |-> FALSE]
  /\ UNCHANGED <<envVars, senderVars, fileState, store, mainVars, fpVars, scrapeVars,
                 fetchLog, revealCount, reported, stopCause, emptySeen, loadedSheet>>

FetchEmailRetry == FetchEmailRetryIf(MayBeOdd)

\* fetchEmail, lines 297 and 303-306: the loop is left and null returned.
FetchEmailGiveUpIf(odd) ==
  /\ pc = "reveal"
  /\ odd
  /\ \E err \in Errors :
       /\ fetchEmailGivesUp(err, feAttempt)
       /\ caught' = [fn |-> "fetchEmail", attempt |-> feAttempt, err |-> err,
                     delays |-> feDelays, warned |-> FETCH_EMAIL_RETRIES > 1,
                     gaveUp |-> TRUE]
  /\ lastBody' = Undef
  /\ PushResult(Null)
  /\ UNCHANGED <<envVars, senderVars, fileState, store, existingAds, allAds, pageNum, nextRequest, html,
                 ffI, inResume, fpVars, adsWithIds,
                 fetchLog, reported, stopCause, emptySeen, loadedSheet>>

FetchEmailGiveUp == FetchEmailGiveUpIf(MayBeOdd)

\* Variant: the next form is looked for before the page's records are
\* appended, so the records of a page without one are dropped.
AfterScrapeNextFirst ==
  /\ pc = "scraped"
  /\ caught' = NoCatch
  /\ allAds' = IF getNextFormData(html) = NoForm THEN allAds ELSE allAds \o results
  /\ reported' = reported + 1
  /\ IF inResume
       THEN IF getNextFormData(html) = NoForm
              THEN /\ pc' = "save"
                   /\ UNCHANGED <<nextRequest, pageNum>>
              ELSE /\ nextRequest' = getNextFormData(html)
                   /\ pageNum' = pageNum + 1
                   /\ pc' = "loop"
       ELSE IF Len(results) = 0 \/ getNextFormData(html) = NoForm
              THEN /\ pc' = "save"
                   /\ UNCHANGED <<nextRequest, pageNum>>
              ELSE /\ nextRequest' = getNextFormData(html)
                   /\ pageNum' = pageNum + 1
                   /\ pc' = "loop"
  /\ results' = <<>>
  /\ UNCHANGED <<envVars, senderVars, fileState, store, existingAds, html, ffI, inResume, fpVars,
                 adsWithIds, lastBody, feVars,
                 fetchLog, revealCount, stopCause, emptySeen, loadedSheet>>

\* scrapeAllPages, lines 482-487 (resume branch) and 502-509 (page loop).
AfterScrape ==
  /\ pc = "scraped"
  /\ caught' = NoCatch
  /\ allAds' = pushAll(allAds, results)
  /\ reported' = reported + 1
  /\ IF inResume
       THEN IF getNextFormData(html) = NoForm
              THEN /\ pc' = "save"
                   /\ UNCHANGED <<nextRequest, pageNum>>
              ELSE /\ nextRequest' = getNextFormData(html)
                   /\ pageNum' = pageNum + 1
                   /\ pc' = "loop"
       ELSE IF Len(results) = 0 \/ getNextFormData(html) = NoForm
              THEN /\ pc' = "save"
                   /\ UNCHANGED <<nextRequest, pageNum>>
              ELSE /\ nextRequest' = getNextFormData(html)
                   /\ pageNum' = pageNum + 1
                   /\ pc' = "loop"
  /\ results' = <<>>
  /\ UNCHANGED <<envVars, senderVars, fileState, store, existingAds, html, ffI, inResume, fpVars,
                 adsWithIds, lastBody, feVars,
                 fetchLog, revealCount, stopCause, emptySeen, loadedSheet>>

\* main, lines 562-564: the result set returned by scrapeAllPages is saved.
MainSave ==
  /\ pc = "save"
  /\ caught' = NoCatch
  /\ store' = saveToExcel(allAds)
  /\ fileState' = "present"
  /\ pc' = "done"
  /\ UNCHANGED <<envVars, senderVars, existingAds, allAds, pageNum, nextRequest, html, ffI,
                 inResume, fpVars, scrapeVars, feVars, histVars>>

\* ------------------------------------------------------- actions (sender)
\* A row array, with the row at index i marked sent (line 121).
MarkSent(rows, i) == [rows EXCEPT ![i].sent = YES]

\* The rows of file f on disk.
FileRows(f) == IF f = 1 THEN store ELSE store2

\* getExcelFiles, lines 41-48, without --files: the files of the directory.
getExcelFiles == IF fileState = "absent" THEN <<2>> ELSE <<1, 2>>

\* sender main, lines 68-88: arguments and the list of files.
SenderMain ==
  /\ spc = "start"
  /\ maxEmails' = maxEmailsOf(maxArg)
  /\ excelFiles' = getExcelFiles
  /\ sFile' = 1
  /\ sentCount' = 0
  /\ toSend' = <<>>
  /\ spc' = "gather"
  /\ UNCHANGED <<scraperVars, fileState, store, store2, maxArg, rowsMem, sLoaded,
                 sI, sendLog>>

\* sender main, lines 90-108: one turn of the loop over the files; after the
\* last file the sending loop is entered unless toSend is empty.
SenderLoad ==
  /\ spc = "gather"
  /\ LET f == excelFiles[sFile]
         state == IF f = 1 THEN fileState ELSE "present"
         rows == loadRows(state, FileRows(f))
     IN /\ state # "unreadable"
        /\ rowsMem' = [rowsMem EXCEPT ![f] = rows]
        /\ sLoaded' = [sLoaded EXCEPT ![f] = rows]
        /\ toSend' = gatherRows(toSend, rows, f, 1, sentCount, maxEmails)
  /\ sFile' = sFile + 1
  /\ sI' = 0
  /\ spc' = IF sFile < Len(excelFiles) THEN "gather"
            ELSE IF Len(toSend') = 0 THEN "done"
            ELSE IF sentCount < maxEmails THEN "send" ELSE "done"
  /\ UNCHANGED <<scraperVars, fileState, store, store2, maxArg, maxEmails,
                 excelFiles, sentCount, sendLog>>

\* loadRows, line 51: XLSX.readFile throws; main().catch exits the process.
SenderLoadFails ==
  /\ spc = "gather"
  /\ excelFiles[sFile] = 1 /\ fileState = "unreadable"
  /\ spc' = "crashed"
  /\ UNCHANGED <<scraperVars, fileState, store, store2, maxArg, maxEmails,
                 excelFiles, sFile, rowsMem, sLoaded, toSend, sentCount, sI, sendLog>>

\* The loop of line 110 after a turn: the next turn, or the end of main.
SendLoopNext(i, count) ==
  IF i < Len(toSend) /\ count < maxEmails THEN "send" ELSE "done"

\* sender main, lines 111-124 and 129-131: sendEmailGmail returns; the row is
\* marked, the file saved and the send counted.
SendOk ==
  /\ spc = "send"
  /\ LET f == toSend[sI + 1].file
         r == toSend[sI + 1].rowIndex
         marked == MarkSent(rowsMem[f], r)
     IN /\ sendLog' = Append(sendLog, [file |-> f, rowIndex |-> r, ok |-> TRUE,
                                       saved |-> TRUE,
                                       to |-> trim(rowsMem[f][r].email)])
        /\ rowsMem' = [rowsMem EXCEPT ![f] = marked]
        /\ store' = IF f = 1 THEN saveRows(marked) ELSE store
        /\ store2' = IF f = 2 THEN saveRows(marked) ELSE store2
  /\ sentCount' = sentCount + 1
  /\ sI' = sI + 1
  /\ spc' = SendLoopNext(sI', sentCount')
  /\ UNCHANGED <<scraperVars, fileState, maxArg, maxEmails, excelFiles, sFile,
                 sLoaded, toSend>>

\* sender main, lines 116-122 and 125-131: sendEmailGmail returns and the row
\* is marked, but saveRows throws (the file cannot be written); the catch
\* block logs a warning and the send is not counted.
SendOkSaveFails ==
  /\ spc = "send"
  /\ LET f == toSend[sI + 1].file
         r == toSend[sI + 1].rowIndex
     IN /\ sendLog' = Append(sendLog, [file |-> f, rowIndex |-> r, ok |-> TRUE,
                                       saved |-> FALSE,
                                       to |-> trim(rowsMem[f][r].email)])
        /\ rowsMem' = [rowsMem EXCEPT ![f] = MarkSent(rowsMem[f], r)]
  /\ sI' = sI + 1
  /\ spc' = SendLoopNext(sI', sentCount)
  /\ UNCHANGED <<scraperVars, fileState, store, store2, maxArg, maxEmails,
                 excelFiles, sFile, sLoaded, toSend, sentCount>>

\* sender main, lines 125-131: sendEmailGmail throws; a warning is logged.
SendFail ==
  /\ spc = "send"
  /\ LET f == toSend[sI + 1].file
         r == toSend[sI + 1].rowIndex
     IN sendLog' = Append(sendLog, [file |-> f, rowIndex |-> r, ok |-> FALSE,
                                    saved |-> FALSE,
                                    to |-> trim(rowsMem[f][r].email)])
  /\ sI' = sI + 1
  /\ spc' = SendLoopNext(sI', sentCount)
  /\ UNCHANGED <<scraperVars, fileState, store, store2, maxArg, maxEmails,
                 excelFiles, sFile, rowsMem, sLoaded, toSend, sentCount>>

\* The store files the sender is run on: up to n rows of the kinds tried.
SenderStores(n) ==
  UNION { [1..k -> SenderRowKinds] : k \in 0..n }

SheetRows(cells) ==
  [i \in 1..Len(cells) |->
     [page |-> 1, slot |-> i, email |-> cells[i].email, sent |-> cells[i].sent]]

\* The sender is started on two store files; no crawl is running.
SenderInit ==
  /\ listing = <<[markers |-> <<>>, next |-> FALSE]>>
  /\ maxPages = MAIN_MAX_PAGES
  /\ loadedSheet = <<>>
  /\ FreshRun
  /\ \/ fileState \in {"present", "unreadable"} /\ \E c \in SenderStores(MaxRows) : store = SheetRows(c)
     \/ fileState \in {"absent", "nosheet"} /\ store = <<>>
  /\ \E c \in SenderStores(MaxRows2) : store2 = SheetRows(c)
  /\ maxArg \in MaxArgs
  /\ SenderIdle("start")

SenderNext ==
  \/ SenderMain
  \/ SenderLoad
  \/ SenderLoadFails
  \/ SendOk
  \/ SendOkSaveFails
  \/ SendFail

SenderSpec == SenderInit /\ [][SenderNext]_vars

Next ==
  \/ MainStart
  \/ LoopHead
  \/ FetchPageOk
  \/ FetchPageRetry
  \/ FetchPageThrow
  \/ FastForward
  \/ ScrapeCurrentPage
  \/ FetchEmailOk
  \/ FetchEmailRetry
  \/ FetchEmailGiveUp
  \/ AfterScrape
  \/ MainSave

Spec == Init /\ [][Next]_vars

\* ------------------------------------------ one page, any lookup outcomes
\* A fresh crawl of a listing of one page, in which every lookup may fail or
\* be given any of the bodies tried.
RevealInit ==
  /\ listing \in {l \in Listings : Len(l) = 1 /\ IsChain(l)}
  /\ maxPages = MAIN_MAX_PAGES
  /\ fileState = "absent" /\ store = <<>>
  /\ loadedSheet = <<>>
  /\ FreshRun
  /\ store2 = <<>> /\ maxArg = NoArg
  /\ SenderIdle("idle")

FetchEmailOkAny == FetchEmailOkIf(TRUE)
FetchEmailRetryAny == FetchEmailRetryIf(TRUE)
FetchEmailGiveUpAny == FetchEmailGiveUpIf(TRUE)

RevealNext ==
  \/ MainStart
  \/ LoopHead
  \/ FetchPageOk
  \/ ScrapeCurrentPage
  \/ FetchEmailOkAny
  \/ FetchEmailRetryAny
  \/ FetchEmailGiveUpAny
  \/ AfterScrape
  \/ MainSave

RevealSpec == RevealInit /\ [][RevealNext]_vars

\* ------------------------------------------- one page, any entry markers
\* The pages given to parsePage: up to MaxMarkers markers, each with or
\* without an id.
MarkerSeqs == UNION { [1..n -> BOOLEAN] : n \in 0..MaxMarkers }

\* A fresh crawl of a listing of one page with any of these marker
\* sequences; every lookup is answered with an address.
ParseInit ==
  /\ listing \in { <<[markers |-> m, next |-> FALSE]>> : m \in MarkerSeqs }
  /\ maxPages = MAIN_MAX_PAGES
  /\ fileState = "absent" /\ store = <<>>
  /\ loadedSheet = <<>>
  /\ FreshRun
  /\ store2 = <<>> /\ maxArg = NoArg
  /\ SenderIdle("idle")

FetchEmailOkPlain == FetchEmailOkIf(FALSE)

ParseNext ==
  \/ MainStart
  \/ LoopHead
  \/ FetchPageOk
  \/ ScrapeCurrentPage
  \/ FetchEmailOkPlain
  \/ AfterScrape
  \/ MainSave

ParseSpec == ParseInit /\ [][ParseNext]_vars

\* --------------------------------- a store the sender has marked rows of
\* The rows of st with the rows at the indexes of `marked` marked as sent.
WithMarks(st, marked) ==
  [i \in 1..Len(st) |-> IF i \in marked THEN [st[i] EXCEPT !.sent = YES] ELSE st[i]]

\* The stores an earlier crawl and sender runs after it leave behind: the
\* first row, the last row or both are marked.
MarkedStores(l) ==
  UNION { { WithMarks(st, marked) : marked \in (SUBSET {1, Len(st)}) \ {{}} } :
            st \in PriorStores(l) \ {<<>>} }

\* A crawl is started on a store with marked rows.
MarkedInit ==
  /\ listing \in {l \in Listings : IsChain(l)}
  /\ maxPages = MAIN_MAX_PAGES
  /\ fileState = "present" /\ store \in MarkedStores(listing)
  /\ loadedSheet = <<>>
  /\ FreshRun
  /\ store2 = <<>> /\ maxArg = NoArg
  /\ SenderIdle("idle")

MarkedSpec == MarkedInit /\ [][Next]_vars

\* ------------------------------- crawl and sender on the same store file
\* A crawl and a sender run are started on the output file of an earlier
\* crawl of the first page (or on one that cannot be read), the sender with
\* --max 1 or --max 2; the two processes take their steps in any order.  A
\* file read or write is one step: both use the synchronous XLSX.readFile /
\* XLSX.writeFile.
SharedInit ==
  /\ listing \in {l \in Listings : IsChain(l) /\ Len(l) <= LiveListing}
  /\ maxPages = MAIN_MAX_PAGES
  /\ parseMarkers(listing[1].markers, 1, 1) # <<>>
  /\ fileState \in {"present", "unreadable"}
  /\ store = saveToExcel(PagesAds(listing, 1, Null))
  /\ loadedSheet = <<>>
  /\ FreshRun
  /\ store2 = <<>> /\ maxArg \in {<<"1">>, <<"2">>}
  /\ SenderIdle("start")

SharedNext == Next \/ SenderNext

SharedSpec == SharedInit /\ [][SharedNext]_vars

\* ------------------------------------------- any listing, run to its end
\* A crawl of any listing of up to LiveListing pages, the last of which may
\* have a next form (the site then has as many pages as are asked for); main's
\* ceiling of 9999 pages is tried on the listings that end.  The process
\* keeps running: a step that can be taken is taken (every request is
\* answered or fails, every timer fires).
LiveInit ==
  /\ listing \in {l \in Listings : Len(l) <= LiveListing}
  /\ maxPages \in IF listing[Len(listing)].next
                    THEN {SmallMaxPages}
                    ELSE {SmallMaxPages, MAIN_MAX_PAGES}
  /\ \/ fileState = "present" /\ store \in PriorStores(listing)
     \/ fileState = "absent" /\ store = <<>>
  /\ loadedSheet = <<>>
  /\ FreshRun
  /\ store2 = <<>> /\ maxArg = NoArg
  /\ SenderIdle("idle")

LiveSpec == LiveInit /\ [][Next]_vars /\ WF_vars(Next)

\* ------------------------------------------------------------- properties
\* The rows a result set is expected to be stored as.
SheetOf(ads) ==
  [i \in 1..Len(ads) |->
     [page |-> ads[i].page, slot |-> ads[i].slot,
      email |-> IF ads[i].email \in {Null, Undef} THEN <<>> ELSE ads[i].email,
      sent |-> IF ads[i].sent \in {Null, Undef} THEN <<>> ELSE ads[i].sent]]

Min(a, b) == IF a < b THEN a ELSE b

Keys(ads) == [i \in 1..Len(ads) |-> <<ads[i].page, ads[i].slot>>]

\* An error the retry policy names as transient.
Transient(err) ==
  \/ err.code \in {"ECONNRESET", "ETIMEDOUT", "ECONNABORTED"}
  \/ err.causeCode \in {"ECONNRESET", "ETIMEDOUT", "ECONNABORTED"}
  \/ err.message \in {"socket hang up", "Network Error"}

\* The ads of the pages answered to requests j.. of this run's fetch log.
RECURSIVE KeysFetchedFrom(_)
KeysFetchedFrom(j) ==
  IF j > Len(fetchLog) THEN <<>>
  ELSE Keys(parsePage(fetchLog[j].got)) \o KeysFetchedFrom(j + 1)

Resumed == Len(existingAds) > 0
Running == pc \notin {"start", "done"}

C2_PageFetchFailureStopsAndSaves ==
  stopCause = "pagefail" =>
    /\ pc \in {"save", "done"}
    /\ fpAttempt = FETCH_PAGE_RETRIES \/ ~Transient(fpErr)
    /\ Keys(allAds) = Keys(existingAds) \o KeysFetchedFrom(ffI + 1)
    /\ SubSeq(allAds, 1, Len(existingAds)) = existingAds
    /\ ~Resumed =>
         /\ Len(fetchLog) = pageNum - 1
         /\ \A j \in 1..Len(fetchLog) : fetchLog[j].got = j
    /\ pc = "done" => store = SheetOf(allAds)

C2_Witness ==
  /\ stopCause = "pagefail"
  /\ pc = "done"
  /\ ~Resumed
  /\ fpAttempt = FETCH_PAGE_RETRIES /\ Transient(fpErr)
  /\ pageNum = 3
  /\ Len(store) = 2 * ADS_PER_PAGE

\* C3 (as claimed): once a page has been parsed with zero records, no
\* listing request is issued any more in the run.
C3_NoFetchAfterEmptyPage == ~(emptySeen /\ pc = "fetch")

\* C4 (as claimed): a run resumed from exactly k*5 records, k no more than
\* the number of listing pages, gets pages 1..k by its first k requests and
\* reveals and appends records of pages after k only.
C4_ResumeOnBoundary ==
  LET n == Len(existingAds)
      k == n \div ADS_PER_PAGE
  IN (n > 0 /\ n % ADS_PER_PAGE = 0 /\ k <= Len(listing)) =>
       /\ \A j \in 1..Min(k, Len(fetchLog)) : fetchLog[j].got = j
       /\ \A i \in 1..Len(results) : results[i].page > k
       /\ \A i \in (n + 1)..Len(allAds) : allAds[i].page > k

\* C5: a resumed run starts at page floor(N/5)+1; no lookup is made while it
\* fast-forwards; and when the fast-forward loop has run to its end, the
\* first-page request was followed by exactly floor(N/5) form requests, each
\* built from the page answered just before.
C5_FastForwardReplaysChain ==
  LET n == Len(existingAds)
  IN /\ (Resumed /\ Running /\ reported = 0) => pageNum = (n \div ADS_PER_PAGE) + 1
     /\ (pc = "ff" \/ (pc = "fetch" /\ fpCaller \in {"first", "ff"})) => revealCount = 0
     /\ (pc = "scrape" /\ inResume /\ ffI = pageNum - 1) =>
          /\ revealCount = 0
          /\ Len(fetchLog) = (n \div ADS_PER_PAGE) + 1
          /\ fetchLog[1].req = LISTING_URL
          /\ \A j \in 2..Len(fetchLog) :
               fetchLog[j].req = [kind |-> "form", from |-> fetchLog[j - 1].got]

C5_Witness ==
  /\ pc = "scrape" /\ inResume
  /\ Len(existingAds) = 2 * ADS_PER_PAGE
  /\ ffI = 2 /\ pageNum = 3
  /\ Len(fetchLog) = 3
  /\ html = 3

\* C6: when the first-page fetch or a fast-forward fetch of a resumed run
\* throws, the run goes straight to its end: no page is scraped, no lookup is
\* made, and the store holds the rows loaded at start, unchanged.
C6_FastForwardFailureKeepsStore ==
  stopCause \in {"firstfail", "fffail"} =>
    /\ pc \in {"save", "done"}
    /\ revealCount = 0 /\ reported = 0
    /\ loadedSheet # <<>>
    /\ store = loadedSheet

C6_Witness ==
  /\ stopCause = "fffail"
  /\ pc = "done"
  /\ Len(fetchLog) = 2
  /\ Len(store) = 3 * ADS_PER_PAGE
  /\ store[1].email = EmptyCell /\ store[2].email = ADDR

\* C7: a fetchPage call makes at most 4 attempts, a further attempt only
\* after a transient failure, with delays of 2000, 4000 and 8000 ms before
\* attempts 2, 3 and 4, and none after the failure it throws.
C7_FetchPageRetryPolicy ==
  (pc = "fetch" \/ stopCause # "none") =>
    /\ fpAttempt \in 1..4
    /\ fpDelays = SubSeq(<<2000, 4000, 8000>>, 1, fpAttempt - 1)
    /\ (pc = "fetch" /\ fpAttempt > 1) => Transient(fpErr)

C7_Witness ==
  /\ stopCause # "none"
  /\ fpAttempt = 4
  /\ Transient(fpErr)
  /\ fpDelays = <<2000, 4000, 8000>>

\* C8: a non-transient failure is never followed by another attempt of the
\* same call: it is thrown at the attempt it occurred in, with no delay taken
\* after it.
C8_NonTransientThrownAtOnce ==
  /\ pc = "fetch" => (fpErr = NoErr \/ Transient(fpErr))
  /\ (stopCause # "none" /\ ~Transient(fpErr)) =>
       /\ pc \in {"save", "done"}
       /\ Len(fpDelays) = fpAttempt - 1

C8_Witness ==
  /\ stopCause # "none"
  /\ ~Transient(fpErr)
  /\ fpAttempt = 3
  /\ Len(fpDelays) = 2

\* C9: in both retry loops each delay is strictly greater than the one
\* before it.
C9_BackoffIncreases ==
  /\ \A i \in 1..(Len(fpDelays) - 1) : fpDelays[i] < fpDelays[i + 1]
  /\ \A i \in 1..(Len(feDelays) - 1) : feDelays[i] < feDelays[i + 1]

C9_Witness ==
  /\ pc = "reveal"
  /\ feAttempt = FETCH_EMAIL_RETRIES
  /\ Len(feDelays) = 3

\* A JSON text whose value, or whose email field, is address-shaped.
AddressInJson(t) ==
  /\ IsJson(t)
  /\ \/ EMAIL_REGEX(JSONparse(t).email)
     \/ (JSONparse(t).type = "string" /\ EMAIL_REGEX(JSONparse(t).str))

\* C10 (as claimed): after a lookup that was answered, the record's e-mail is
\* the (trimmed) body when that is address-shaped, and null for any body that
\* neither is address-shaped nor carries an address-shaped value.
C10_RevealedValueIsAddressOrNull ==
  (pc \in {"reveal", "scraped"} /\ lastBody # Undef /\ results # <<>>) =>
    LET email == results[Len(results)].email
        trimmed == trim(lastBody)
    IN IF EMAIL_REGEX(trimmed) THEN email = trimmed
       ELSE IF AddressInJson(trimmed) THEN TRUE
       ELSE email = Null

\* Records appended by this run so far.
Appended == Len(allAds) - Len(existingAds)

\* scrapeCurrentPage holds the parse of the page, has pushed the records of
\* its first ads in parse order with one completed lookup each, has pushed
\* all of them when it returns, and a lookup that failed left null.
RevealState ==
  pc \in {"reveal", "scraped"} =>
    /\ adsWithIds = parsePage(html)
    /\ Len(results) <= Len(adsWithIds)
    /\ Keys(results) = SubSeq(Keys(adsWithIds), 1, Len(results))
    /\ revealCount = Appended + Len(results)
    /\ pc = "reveal" => Len(results) < Len(adsWithIds)
    /\ pc = "scraped" => Len(results) = Len(adsWithIds)
    /\ (results # <<>> /\ lastBody = Undef) => results[Len(results)].email = Null

\* A lookup adds one record and leaves the records pushed before as they are.
RevealStep ==
  pc = "reveal" =>
    /\ Len(results') \in {Len(results), Len(results) + 1}
    /\ SubSeq(results', 1, Len(results)) = results

\* C11: a page whose parse yields m records gives exactly m records in parse
\* order with one lookup per record, whichever lookups fail; a failed lookup
\* leaves null in its own record and changes no other record.
C11_RevealFailureIsRecordLocal == []RevealState /\ [][RevealStep]_vars

C11_Witness ==
  /\ pc = "scraped"
  /\ Len(results) = ADS_PER_PAGE
  /\ results[1].email = ADDR /\ results[2].email = Null
  /\ results[3].email = ADDR /\ results[4].email = Null
  /\ results[5].email = Null /\ lastBody = Undef
  /\ revealCount = ADS_PER_PAGE

\* The listing of the end-to-end scenario: 5 records and a next form, then 3
\* records and no next form.
TwoPageListing ==
  << [markers |-> <<TRUE, TRUE, TRUE, TRUE, TRUE>>, next |-> TRUE],
     [markers |-> <<TRUE, FALSE, TRUE, TRUE>>, next |-> FALSE] >>

\* A fresh run over the two-page listing has ended with no fetch given up.
TwoPageRunDone ==
  /\ listing = TwoPageListing
  /\ ~Resumed
  /\ pc = "done"
  /\ stopCause = "none"

\* C12 (as claimed): a fresh run over the two-page listing makes exactly 2
\* listing requests and 8 lookups and stores exactly the 8 records in listing
\* order, each with an e-mail that is address-shaped or null.
C12_TwoPageRun ==
  TwoPageRunDone =>
    /\ Len(fetchLog) = 2
    /\ revealCount = 8
    /\ Keys(store) = Keys(parsePage(1)) \o Keys(parsePage(2))
    /\ \A i \in 1..Len(store) :
         store[i].email = EmptyCell \/ EMAIL_REGEX(store[i].email)

\* C13 (as claimed): no page with a number above maxPages is fetched or
\* scraped, and no more than maxPages pages are reported, in a fresh or a
\* resumed run.
C13_CeilingBeforeEachFetch ==
  /\ \A j \in 1..Len(fetchLog) : fetchLog[j].got <= maxPages
  /\ pc \in {"scrape", "reveal", "scraped"} => html <= maxPages
  /\ reported <= maxPages

\* C14: once a page with at least one record and no next form has been
\* scraped, its records end the result set, no listing request is issued any
\* more, and the result set with them is what the run stores; in the page
\* loop and in the resume branch alike.
C14_LastPageIsPersisted ==
  (/\ reported > 0
   /\ pc \notin {"scrape", "reveal", "scraped"}
   /\ getNextFormData(html) = NoForm
   /\ parsePage(html) # <<>>) =>
    /\ pc \in {"save", "done"}
    /\ stopCause = "none"
    /\ fetchLog[Len(fetchLog)].got = html
    /\ Len(allAds) >= Len(parsePage(html))
    /\ Keys(SubSeq(allAds, Len(allAds) - Len(parsePage(html)) + 1, Len(allAds)))
         = Keys(parsePage(html))
    /\ pc = "done" => store = SheetOf(allAds)

C14_Witness ==
  /\ pc = "done"
  /\ inResume
  /\ reported = 1
  /\ html = 3
  /\ getNextFormData(html) = NoForm
  /\ Len(parsePage(html)) = 3
  /\ Len(store) = Len(loadedSheet) + 3

NoUsableStore == fileState \in {"absent", "unreadable", "nosheet"}

\* C16: when the output file is absent, unreadable or without a first sheet,
\* loading raises nothing and gives the empty sequence, and the run is a
\* fresh crawl: it starts at page 1 with the listing URL, makes no
\* fast-forward request and gets the pages in order.
C16_UnusableStoreIsFreshRun ==
  /\ pc # "crashed"
  /\ (Running /\ NoUsableStore) =>
       /\ existingAds = <<>>
       /\ ~inResume /\ pc # "ff" /\ ffI = 0
       /\ fpCaller \in {"none", "loop"}
       /\ reported = 0 => (pageNum = 1 /\ nextRequest = LISTING_URL)
       /\ \A j \in 1..Len(fetchLog) :
            /\ fetchLog[j].got = j
            /\ fetchLog[j].req = IF j = 1 THEN LISTING_URL
                                 ELSE [kind |-> "form", from |-> j - 1]

C16_Witness ==
  /\ fileState = "unreadable"
  /\ store # <<>>
  /\ pc = "reveal"
  /\ pageNum = 2
  /\ Len(fetchLog) = 2
  /\ reported = 1
  /\ Keys(allAds) = Keys(parsePage(1))

\* The run-level maximum asked for: the count given with --max, or the
\* default when none (or none above zero) is given.
RunMaximum ==
  IF maxArg = <<"1">> THEN 1
  ELSE IF maxArg = <<"2">> THEN 2
  ELSE 100

\* Sends of this sender run that succeeded.
SendsOk == Cardinality({k \in 1..Len(sendLog) : sendLog[k].ok})

\* Row i of file f, as loaded, is one the sender may send to.
Sendable(f, i) ==
  /\ sLoaded[f][i].sent \notin {YES, YESCAP}
  /\ sLoaded[f][i].email # Undef
  /\ EMAIL_REGEX(trim(sLoaded[f][i].email))

\* C17: in a sender run the sends attempted, and so the sends that
\* succeeded, never outnumber the run-level maximum, over all files together
\* and whichever sends fail.
C17_SendCap ==
  /\ spc # "start" => maxEmails = RunMaximum
  /\ Len(toSend) <= RunMaximum
  /\ Len(sendLog) <= RunMaximum
  /\ SendsOk <= RunMaximum
  /\ sentCount <= SendsOk

C17_Witness ==
  /\ spc = "done"
  /\ maxEmails = 2
  /\ Len(sendLog) = 2
  /\ ~sendLog[1].ok /\ sendLog[2].ok
  /\ sendLog[1].file = 1 /\ sendLog[2].file = 1
  /\ Len(sLoaded[2]) = 1 /\ Sendable(2, 1)

\* Some send to row i of file f was attempted / succeeded.
Attempted(f, i) ==
  \E k \in 1..Len(sendLog) : sendLog[k].file = f /\ sendLog[k].rowIndex = i
Succeeded(f, i) ==
  \E k \in 1..Len(sendLog) :
    sendLog[k].file = f /\ sendLog[k].rowIndex = i /\ sendLog[k].ok

\* C18: a row is marked sent = 'yes', in memory and in the file, only when
\* a send to it has succeeded, and it is marked in memory then; a row whose
\* send failed has no marker; and a send is attempted only for a row that
\* had no marker when loaded and whose e-mail is address-shaped, at most once.
C18_MarkerOnlyAfterSuccess ==
  /\ \A f \in {1, 2} : \A i \in 1..Len(sLoaded[f]) :
       /\ Succeeded(f, i) => rowsMem[f][i].sent = YES
       /\ ~Succeeded(f, i) =>
            /\ rowsMem[f][i].sent = sLoaded[f][i].sent
            /\ FileRows(f)[i].sent = ToCell(sLoaded[f][i].sent)
       /\ (Attempted(f, i) /\ ~Succeeded(f, i)) => rowsMem[f][i].sent = Undef
       /\ Attempted(f, i) => Sendable(f, i)
  /\ \A k \in 1..Len(sendLog) :
       /\ sendLog[k].rowIndex \in 1..Len(sLoaded[sendLog[k].file])
       /\ \A j \in 1..Len(sendLog) :
            (sendLog[j].file = sendLog[k].file
               /\ sendLog[j].rowIndex = sendLog[k].rowIndex) => j = k

C18_Witness ==
  /\ spc = "done"
  /\ Len(sendLog) = 2
  /\ ~sendLog[1].ok /\ sendLog[2].ok
  /\ sendLog[1].file = 1 /\ sendLog[2].file = 1
  /\ store[sendLog[1].rowIndex].sent = EmptyCell
  /\ store[sendLog[2].rowIndex].sent = YES
  /\ Len(sLoaded[2]) = 1 /\ sLoaded[2][1].sent = YES /\ sLoaded[2][1].email = ADDR

\* The records a fresh complete run gives: those of the pages from j on, up
\* to the page ceiling, the last page or the first page without records.
RECURSIVE FreshRunKeys(_)
FreshRunKeys(j) ==
  IF j > Len(listing) \/ j > maxPages THEN <<>>
  ELSE IF parsePage(j) = <<>> THEN <<>>
  ELSE Keys(parsePage(j)) \o FreshRunKeys(j + 1)

\* C19 (as claimed): a resumed run that ends with no fetch given up has the
\* result set of a fresh complete run: every listing record once, none
\* skipped, whatever the number of records it resumed from.
C19_ResumeEqualsFreshRun ==
  (Resumed /\ pc = "done" /\ stopCause = "none") =>
    Keys(allAds) = FreshRunKeys(1)

\* C20 (as claimed): when the fast-forward loop was left at a page without
\* next form before pageNum - 1 steps were taken, no record of that page is
\* looked up and appended.
C20_NoScrapeAfterFastForwardBreak ==
  ~(/\ inResume
    /\ ffI < pageNum - 1
    /\ pc \in {"reveal", "scraped"}
    /\ adsWithIds # <<>>)

\* The markers of the page held that parsePage looks at and keeps: those
\* among the first five that have an id.
KeptSlots ==
  {i \in 1..Min(ADS_PER_PAGE, Len(listing[html].markers)) : listing[html].markers[i]}

\* C21: parsePage gives at most 5 records: one for each marker with an id
\* among the first 5 markers, in document order, and nothing for a marker
\* without id or after the fifth; a page without marker gives the empty list.
C21_ParsePage ==
  pc \in {"reveal", "scraped"} =>
    /\ Len(adsWithIds) <= ADS_PER_PAGE
    /\ {adsWithIds[k].slot : k \in 1..Len(adsWithIds)} = KeptSlots
    /\ Len(adsWithIds) = Cardinality(KeptSlots)
    /\ \A k \in 1..(Len(adsWithIds) - 1) : adsWithIds[k].slot < adsWithIds[k + 1].slot
    /\ listing[html].markers = <<>> => adsWithIds = <<>>

C21_Witness ==
  /\ pc = "scraped"
  /\ listing[1].markers = <<FALSE, TRUE, TRUE, TRUE, TRUE, TRUE>>
  /\ Len(adsWithIds) = 4
  /\ adsWithIds[1].slot = 2 /\ adsWithIds[4].slot = 5
  /\ Len(results) = 4

\* The request built from the next form of the page this run fetched last.
FormOfLastPage == [kind |-> "form", from |-> fetchLog[Len(fetchLog)].got]

\* C22: the first listing request of a run is the listing URL; every later
\* one is built from the next form of the page that the run fetched last,
\* which is the page it holds.
C22_TokenFromLastPage ==
  /\ pc = "fetch" =>
       IF fetchLog = <<>> THEN fpReq = LISTING_URL
       ELSE fpReq = FormOfLastPage /\ html = fetchLog[Len(fetchLog)].got
  /\ (pc = "loop" /\ reported > 0) => nextRequest = FormOfLastPage
  /\ \A j \in 1..Len(fetchLog) :
       fetchLog[j].req = IF j = 1 THEN LISTING_URL
                         ELSE [kind |-> "form", from |-> fetchLog[j - 1].got]

C22_Witness ==
  /\ pc = "fetch"
  /\ Resumed
  /\ reported = 1
  /\ Len(fetchLog) = 2
  /\ fpCaller = "loop"
  /\ fpReq = [kind |-> "form", from |-> 2]

\* While a lookup is under way its attempt is one of the first four, the
\* waits made so far are 1000, 2000 and 4000 ms in that order, and every
\* failure before this attempt was transient.
FetchEmailState ==
  pc = "reveal" =>
    /\ feAttempt \in 1..4
    /\ feDelays = SubSeq(<<1000, 2000, 4000>>, 1, feAttempt - 1)
    /\ feAttempt > 1 => Transient(feErr)

\* A failed attempt is retried when its error is transient and it is not the
\* fourth; otherwise the lookup returns null, which its record takes.  No step
\* of a lookup leaves scrapeCurrentPage.
FetchEmailStep ==
  pc = "reveal" =>
    /\ pc' \in {"reveal", "scraped"}
    /\ caught'.fn \in {"none", "fetchEmail"}
    /\ caught'.fn = "fetchEmail" =>
         IF Transient(caught'.err) /\ caught'.attempt < 4
           THEN /\ ~caught'.gaveUp
                /\ results' = results
                /\ pc' = "reveal"
                /\ feAttempt' = caught'.attempt + 1
           ELSE /\ caught'.gaveUp
                /\ Len(results') = Len(results) + 1
                /\ results'[Len(results')].email = Null
                /\ lastBody' = Undef

\* C23: fetchEmail never raises: it makes at most 4 attempts, retries only
\* after a transient error, waiting 1000, 2000 and 4000 ms before attempts 2, 3
\* and 4, and returns null both when the 4th attempt fails and when an attempt
\* fails with an error that is not transient.
C23_FetchEmailNeverRaises == []FetchEmailState /\ [][FetchEmailStep]_vars

C23_Witness ==
  /\ caught.fn = "fetchEmail" /\ caught.gaveUp
  /\ caught.attempt = 4 /\ Transient(caught.err)
  /\ caught.delays = <<1000, 2000, 4000>>
  /\ results # <<>> /\ results[Len(results)].email = Null

\* The carried-forward records are the first records of the result set.
CarriedPrefix ==
  pc # "start" =>
    /\ Len(existingAds) <= Len(allAds)
    /\ SubSeq(allAds, 1, Len(existingAds)) = existingAds

\* After the load no step takes a record away from the result set, moves one
\* or changes a field of one, and none changes the loaded prior result set.
AppendOnlyStep ==
  pc # "start" =>
    /\ Len(allAds') >= Len(allAds)
    /\ SubSeq(allAds', 1, Len(allAds)) = allAds
    /\ existingAds' = existingAds

\* C24: within a run the result set only grows by appending: the
\* carried-forward records stay an unchanged prefix, a record once appended
\* keeps its fields and its position, none is removed, and the loaded prior
\* result set is not changed.
C24_AppendOnly == []CarriedPrefix /\ [][AppendOnlyStep]_vars

C24_Witness ==
  /\ pc = "done"
  /\ Resumed
  /\ reported = 2
  /\ Len(allAds) > Len(existingAds) + ADS_PER_PAGE
  /\ \E k \in (Len(existingAds) + 1)..Len(allAds) : allAds[k].email = Null
  /\ \E k \in (Len(existingAds) + 1)..Len(allAds) : allAds[k].email = ADDR

\* The error handed to the catch block of scrapeAllPages is the one fetchPage
\* caught last; a give-up on a transient error comes at the fourth attempt,
\* after waits of 2000, 4000 and 8000 ms; the catch block leaves the run at
\* the final save.
PageGiveUp ==
  caught.fn = "scrapeAllPages" =>
    /\ caught.err = fpErr
    /\ Transient(caught.err) =>
         caught.attempt = 4 /\ caught.delays = <<2000, 4000, 8000>>
    /\ pc = "save"
    /\ stopCause \in {"firstfail", "fffail", "pagefail"}

\* Once a page fetch has been given up the run fetches and appends nothing
\* more, and it ends with the result set saved.
PaginationStopped ==
  stopCause \in {"firstfail", "fffail", "pagefail"} =>
    /\ pc \in {"save", "done"}
    /\ pc = "done" => store = SheetOf(allAds)

StoppedStep ==
  stopCause \in {"firstfail", "fffail", "pagefail"} =>
    /\ fetchLog' = fetchLog
    /\ allAds' = allAds
    /\ pc' = "done"

\* C25: when fetchPage gives up after 4 transient failures the error it
\* raises is that of the 4th attempt, and scrapeAllPages turns it into the end
\* of pagination: the run goes to its final save and does not fail.
C25_LastErrorStopsPagination ==
  []PageGiveUp /\ []PaginationStopped /\ [][StoppedStep]_vars

C25_Witness ==
  /\ caught.fn = "scrapeAllPages"
  /\ caught.attempt = 4
  /\ Transient(caught.err)
  /\ fpCaller = "loop"
  /\ reported = 1
  /\ pc = "save"

\* C26 (as claimed): every network error caught in fetchPage, fetchEmail or
\* scrapeAllPages produces a warning before the code retries or falls back,
\* the transient failure of a lookup's first attempt included.
C26_EveryCatchWarns == caught.fn # "none" => caught.warned

\* The retry of a lookup's first attempt.
FirstLookupRetry == caught.fn = "fetchEmail" /\ caught.attempt = 1 /\ ~caught.gaveUp

\* C26 (amended): every network error caught in fetchPage or scrapeAllPages
\* produces a warning, and so does every error on which fetchEmail gives up and
\* every retry of fetchEmail from its second attempt on; the transient failure
\* of a lookup's first attempt is retried without any warning.
C26_WarnsExceptFirstLookupRetry ==
  caught.fn # "none" => (caught.warned <=> ~FirstLookupRetry)

C26_Witness ==
  /\ FirstLookupRetry
  /\ ~caught.warned
  /\ Transient(caught.err)
  /\ pc = "reveal" /\ feAttempt = 2 /\ feDelays = <<1000>>

\* No fetch is at an attempt beyond the fourth, and no more pages have been
\* scraped than the ceiling allows.
RunBounded ==
  /\ fpAttempt <= 4
  /\ feAttempt <= 4
  /\ reported <= maxPages
  /\ Len(fetchLog) <= Len(existingAds) \div ADS_PER_PAGE + 1 + maxPages

\* C27: every crawl run ends with the accumulated result set saved, whatever
\* the listing (also one whose every page has records and a next form): the
\* page loop ends after at most maxPages pages, each fetch after at most 4
\* attempts.
C27_RunEndsSaved ==
  /\ []RunBounded
  /\ <>[](pc = "done" /\ fileState = "present" /\ store = SheetOf(allAds))

C27_Witness ==
  /\ pc = "done"
  /\ \A i \in 1..Len(listing) : listing[i].next /\ parsePage(i) # <<>>
  /\ reported = maxPages
  /\ stopCause = "none"
  /\ store = SheetOf(allAds)

\* The rows of the store that were loaded with the marker.
LoadedMarked == {k \in 1..Len(loadedSheet) : loadedSheet[k].sent = YES}

\* C28: a resumed crawl keeps the dispatched marker of every carried-forward
\* row: each row loaded with sent = 'yes' is in the store, at its place and
\* with sent = 'yes', after every write of the run, whichever way the run ends.
C28_MarkersCarriedForward ==
  /\ \A k \in LoadedMarked : k <= Len(store) /\ store[k] = loadedSheet[k]
  /\ pc # "start" =>
       \A k \in 1..Len(loadedSheet) : existingAds[k].sent = FromCell(loadedSheet[k].sent)

C28_Witness ==
  /\ pc = "done"
  /\ stopCause = "none"
  /\ LoadedMarked = {1, Len(loadedSheet)}
  /\ Len(store) > Len(loadedSheet)
  /\ store[1].sent = YES /\ store[Len(loadedSheet)].sent = YES
  /\ store[Len(store)].sent = EmptyCell

\* The crawl and the sender have both ended.
BothEnded == pc = "done" /\ spc \in {"done", "crashed"}

\* C29 (as claimed): when the sender and a crawl work on the same store file
\* at overlapping times, a marker the sender has saved for a row is not lost:
\* after both have ended every row of the file that the sender marked and
\* saved is marked in the store.
C29_SavedMarkerNotLost ==
  BothEnded =>
    \A k \in 1..Len(sendLog) :
      (sendLog[k].file = 1 /\ sendLog[k].saved) =>
        /\ sendLog[k].rowIndex <= Len(store)
        /\ store[sendLog[k].rowIndex].sent = YES

====
